---- MODULE Spec2Model ----
(***************************************************************************)
(* A model of the learn-postgresql phase-2 scripts:                        *)
(*   09_async_stack/main.py      the async benchmark (reset_and_seed,      *)
(*                               page_lazy, page_joined, bench, main)      *)
(*   06_low_level/test5_server_side_cursor.py   the psycopg rollback demo  *)
(*   07_SQLAlchemy_core/main.py  the bank transfer and the pool's reuse   *)
(*                               of connections (BankSpec)                 *)
(* LoadSpec is the benchmark's bench run with enough page tasks to reach   *)
(* the pool's ceiling; StoreSpec is the entity model's constraints.        *)
(* A table is the sequence of its rows in primary-key order (the serial id *)
(* only grows and rows are only appended).  The benchmark's database is    *)
(* kept as the log of its committed write transactions; StoredTables       *)
(* replays the log into the tables.                                        *)
(***************************************************************************)
EXTENDS Integers, Sequences, FiniteSets, TLC

VARIABLES
    db,          \* pythondb: the write transactions committed since create_all
    mainPc,      \* position of main() in 09_async_stack/main.py
    concIdx,     \* index of the concurrency value main's loop is at
    run,         \* the bench call in progress: [name, pages, concurrency]
    benchPc,     \* "idle" | "gather" | "reported" | "raised"
    pc,          \* page task -> position inside run_page
    result,      \* page task -> value returned by fn(p) (-1: none)
    fetched,     \* page task -> ids of the Todos fn(p) rendered, in order
    sem,         \* asyncio.Semaphore._value of bench's gate
    waiters,     \* asyncio.Semaphore._waiters: FIFO of page tasks
    ahead,       \* tasks whose wake-up is queued ahead of gather's exception
    checkedOut,  \* connections checked out of the engine's pool
    scope,       \* page task -> its session's transaction: "none" | "open" | "rolledback"
    queries,     \* statements issued since the run started (probe)
    report,      \* what bench printed last: [name, pages, rows] or NoReport
    pg,          \* page-strategy harness: inputs and the two results
    sPc,         \* position of the low-level script test5
    committed,   \* learndb: committed state of table test_users
    work,        \* the connection's view inside its transaction
    txStatus,    \* "idle" | "intrans" | "inerror" (psycopg transaction status)
    xid,         \* id of the connection's current transaction
    all_users,   \* result of the read of step 6
    final_users, \* result of the verification read of step 7
    count,       \* rows read from the server-side cursor of step 8
    bPc,         \* position of the bank-transfer script 07_SQLAlchemy_core
    bank,        \* pythondb: committed state of table bank
    bwork,       \* table bank as seen inside the open transaction
    bpool,       \* QueuePool: idle connections, oldest return first
    made,        \* DBAPI connections the pool has created so far
    held,        \* connections checked out now: [dbapi, proxy], innermost last
    conn_ids,    \* the script's list of id(conn.connection)
    dbapi_ids,   \* the DBAPI connections behind conn_ids (probe)
    conn3,       \* step 7's third connection: [dbapi, proxy], or NoConn
    balances,    \* rows read by step 5
    caught,      \* the exception step 4's block raised: "none" | "check" | "store"
    lPc,         \* bench at reference scale: position of the run
    load,        \* bench at reference scale: [pages, concurrency]
    at,          \* bench at reference scale: page tasks counted by position
    store,       \* entity model harness: the three tables and their id sequences
    added,       \* entity model harness: outcome of the last flush
    oPc,         \* position of the ORM script 08_SQLAlchemy_ORM, step 5
    ostore,      \* pythondb as the ORM script's step 2 left it: todos, comments
    recorded,    \* the list `queries` the event listener appends to
    listening,   \* before_cursor_execute is registered on the engine
    touched,     \* Todos the current loop has visited
    lazy_count,  \* the printed "Lazy load queries" (-1: not printed)
    joined_count \* the printed "Joinedload queries" (-1: not printed)

vars == <<db, mainPc, concIdx, run, benchPc, pc, result, fetched, sem, waiters,
          ahead, checkedOut, scope, queries, report, pg, sPc, committed, work, txStatus,
          xid, all_users, final_users, count, bPc, bank, bwork, bpool, made, held,
          conn_ids, dbapi_ids, conn3, balances, caught, lPc, load, at,
          store, added, oPc, ostore, recorded, listening, touched,
          lazy_count, joined_count>>

asyncVars == <<db, mainPc, concIdx, run, benchPc, pc, result, fetched, sem, waiters,
               ahead, checkedOut, scope, queries, report>>
scriptVars == <<sPc, committed, work, txStatus, xid, all_users, final_users, count>>
bankVars == <<bPc, bank, bwork, bpool, made, held, conn_ids, dbapi_ids, conn3,
              balances, caught>>
loadVars == <<lPc, load, at>>
storeVars == <<store, added>>
ormVars == <<oPc, ostore, recorded, listening, touched, lazy_count, joined_count>>
labVars == <<bankVars, loadVars, storeVars, ormVars>>

----------------------------------------------------------------------------
(* Bounds of the model *)

\* page tasks per bench call (main passes pages=50)
MaxPages == 4
\* concurrency values main's loop runs through: 1..MaxConc
MaxConc == 2
\* page-strategy harness: Todos, Comments, page index and page size drawn
MaxTodos == 3
MaxComments == 2
MaxPage == 2
MaxPageSize == 2
\* rows test_users may hold from an earlier run of the streaming demo
MaxPriorUsers == 3

(* Program constants *)

PAGE_SIZE == 20
NUM_USERS == 20
TODOS_PER_USER == 100
POOL_SIZE == 5
MAX_OVERFLOW == 10
\* pages=50 in main's bench calls
REF_PAGES == 50

----------------------------------------------------------------------------
(* Helpers *)

Min(a, b) == IF a < b THEN a ELSE b

RECURSIVE SumSeq(_)
SumSeq(s) == IF s = <<>> THEN 0 ELSE s[1] + SumSeq(Tail(s))

\* number of positions of s holding x
Count(s, x) == Cardinality({i \in 1..Len(s) : s[i] = x})

\* same elements with the same multiplicities
SameBag(s, t) ==
    /\ Len(s) = Len(t)
    /\ \A i \in 1..Len(s) : Count(s, s[i]) = Count(t, s[i])

\* all orders in which a store may return the rows of s
Perms(s) ==
    LET n == Len(s)
        bij == {f \in [1..n -> 1..n] : \A i, j \in 1..n : f[i] = f[j] => i = j}
    IN  {[i \in 1..n |-> s[f[i]]] : f \in bij}

----------------------------------------------------------------------------
(* Entity model and seeding: 09_async_stack/main.py *)

EmptyDb == [users |-> <<>>, todos |-> <<>>, comments |-> <<>>]

\* f"user{i}"
Username(i) == "user" \o ToString(i)

\* f"{u.username}-task-{t}"
Title(username, t) == username \o "-task-" \o ToString(t)

\* users = [User(username=f"user{i}") for i in range(1, 21)]; the serial ids
\* continue from the rows the table holds
SeedUsers(base, nUsers) ==
    [i \in 1..nUsers |-> [id |-> base.users + i, username |-> Username(i)]]

\* Todo rows whose owner reference is one past the owner's id
SeedTodosOrphan(base, nUsers, perUser) ==
    [k \in 1..(nUsers * perUser) |->
        LET u == ((k - 1) \div perUser) + 1
            t == (k - 1) % perUser
        IN  [id |-> base.todos + k, title |-> Title(Username(u), t),
             is_done |-> (t % 3 = 0), user_id |-> base.users + u + 1]]

\* the Todo rows of main.py:74-85 in the order added: perUser per user,
\* title f"{u.username}-task-{t}", is_done = (t % 3 == 0)
SeedTodos(base, nUsers, perUser) ==
    [k \in 1..(nUsers * perUser) |->
        LET u == ((k - 1) \div perUser) + 1
            t == (k - 1) % perUser
        IN  [id |-> base.todos + k, title |-> Title(Username(u), t),
             is_done |-> (t % 3 = 0), user_id |-> base.users + u]]

\* td.comments = [Comment(body=f"c1-{t}"), Comment(body=f"c2-{t}")]
SeedComments(base, nUsers, perUser) ==
    [k \in 1..(2 * nUsers * perUser) |->
        LET td == ((k - 1) \div 2) + 1
            t == (td - 1) % perUser
        IN  [id |-> base.comments + k,
             body |-> (IF k % 2 = 1 THEN "c1-" ELSE "c2-") \o ToString(t),
             todo_id |-> base.todos + td]]

\* the session's commit: the rows appended to the tables as they are
SeedRows(d, nUsers, perUser) ==
    LET base == [users |-> Len(d.users), todos |-> Len(d.todos),
                 comments |-> Len(d.comments)]
    IN  [users |-> d.users \o SeedUsers(base, nUsers),
         todos |-> d.todos \o SeedTodos(base, nUsers, perUser),
         comments |-> d.comments \o SeedComments(base, nUsers, perUser)]

\* the tables a log of committed transactions leaves: each "seed" is the
\* commit of reset_and_seed's session
RECURSIVE Tables(_)
Tables(log) ==
    IF log = <<>> THEN EmptyDb
    ELSE SeedRows(Tables(SubSeq(log, 1, Len(log) - 1)), NUM_USERS, TODOS_PER_USER)

SeededLog == <<"seed">>

\* the tables after reset_and_seed, computed once
SeededDb == Tables(SeededLog)

StoredTables(log) == IF log = SeededLog THEN SeededDb ELSE Tables(log)

----------------------------------------------------------------------------
(* Query strategies: page_lazy and page_joined *)

\* ORDER BY id over a table
IsSortedById(rows) == \A i \in 1..(Len(rows) - 1) : rows[i].id < rows[i + 1].id

RECURSIVE SortById(_)
SortById(rows) ==
    IF rows = <<>> THEN <<>>
    ELSE LET m == CHOOSE i \in 1..Len(rows) :
                    \A j \in 1..Len(rows) : rows[i].id <= rows[j].id
         IN  <<rows[m]>> \o SortById(SubSeq(rows, 1, m - 1) \o
                                      SubSeq(rows, m + 1, Len(rows)))

OrderById(rows) == IF IsSortedById(rows) THEN rows ELSE SortById(rows)

\* a page whose offset is the page index, not page * size
TodoPageByIndex(todos, page, size) ==
    LET ordered == OrderById(todos)
    IN  SubSeq(ordered, page + 1, Min(page + size, Len(ordered)))

\* select(Todo).order_by(Todo.id).offset(offset).limit(size)
TodoPage(todos, page, size) ==
    LET offset == page * size
        ordered == OrderById(todos)
    IN  SubSeq(ordered, offset + 1, Min(offset + size, Len(ordered)))

\* the Comment rows of the Todos `ids`, in the order the store scans them
CommentsOf(scan, ids) == SelectSeq(scan, LAMBDA c : c.todo_id \in ids)

Bodies(rows) == [i \in 1..Len(rows) |-> rows[i].body]

\* rendered = [(t.title, [c.body for c in t.comments]) for t in todos]
Render(todos, kids) ==
    [i \in 1..Len(todos) |->
        <<todos[i].title, Bodies(CommentsOf(kids, {todos[i].id}))>>]

NoComment == [id |-> 0, body |-> "", todo_id |-> 0]

\* page_lazy loading each Todo's Comments with a statement of its own
PageLazyPerParent(todos, scan, page, size) ==
    LET parents == TodoPage(todos, page, size)
        rendered == Render(parents, scan)
    IN  [todos |-> [i \in 1..Len(parents) |-> parents[i].id],
         rendered |-> rendered, count |-> Len(rendered),
         queries |-> 1 + Len(parents)]

\* page_lazy with selectinload: the Todo page, then one IN query for the
\* Comments of the Todos loaded (none when the page is empty; one as long as
\* the page has at most 500 Todos, the loader's chunk)
PageLazy(todos, scan, page, size) ==
    LET parents == TodoPage(todos, page, size)
        ids == {parents[i].id : i \in 1..Len(parents)}
        kids == CommentsOf(scan, ids)
        rendered == Render(parents, kids)
    IN  [todos |-> [i \in 1..Len(parents) |-> parents[i].id],
         rendered |-> rendered, count |-> Len(rendered),
         queries |-> 1 + (IF Len(parents) > 0 THEN 1 ELSE 0)]

\* the rowset of the joinedload statement: the Todo page as a subquery,
\* LEFT OUTER JOIN comment, ORDER BY the Todo id; one row per Comment, or a
\* single row with no Comment for a Todo that has none
RECURSIVE JoinTo(_, _)
JoinTo(parents, scan) ==
    IF parents = <<>> THEN <<>>
    ELSE LET t == Head(parents)
             kids == CommentsOf(scan, {t.id})
             rows == IF kids = <<>>
                     THEN <<[todo |-> t, comment |-> NoComment]>>
                     ELSE [i \in 1..Len(kids) |-> [todo |-> t, comment |-> kids[i]]]
         IN  rows \o JoinTo(Tail(parents), scan)

\* the join with OFFSET and LIMIT applied to the joined rows
JoinedRowsLimited(todos, scan, page, size) ==
    LET rows == JoinTo(OrderById(todos), scan)
    IN  SubSeq(rows, page * size + 1, Min(page * size + size, Len(rows)))

JoinedRows(todos, scan, page, size) ==
    LET parents == TodoPage(todos, page, size)
        ids == {parents[i].id : i \in 1..Len(parents)}
    IN  JoinTo(parents, CommentsOf(scan, ids))

\* a result read without unique()
NotUnique(rows) == rows

\* Result.unique(): the first occurrence of each entity, in row order
RECURSIVE UniqueById(_)
UniqueById(rows) ==
    IF rows = <<>> THEN <<>>
    ELSE LET rest == UniqueById(SubSeq(rows, 1, Len(rows) - 1))
             last == rows[Len(rows)]
         IN  IF \E i \in 1..Len(rest) : rest[i].id = last.id
             THEN rest ELSE Append(rest, last)

\* t.comments as the joined loader fills it: the Comments of the rows of
\* Todo t, in row order
Attached(rows, t) ==
    LET mine == SelectSeq(rows, LAMBDA r : r.todo.id = t.id /\ r.comment # NoComment)
    IN  [i \in 1..Len(mine) |-> mine[i].comment]

\* a joined loader that sets up t.comments only from rows carrying a Comment
PopulatedByComment(rows) ==
    {rows[i].todo.id : i \in {j \in 1..Len(rows) : rows[j].comment # NoComment}}

\* the Todos whose t.comments the joined loader has set up while reading
\* the rows: every Todo of a row, with an empty collection when its row
\* carries no Comment
Populated(rows) == {rows[i].todo.id : i \in 1..Len(rows)}

\* [c.body for c in t.comments] over the Todos loaded: reading t.comments of
\* a Todo whose collection is not set up makes the session load it with a
\* statement of its own
LazyLoads(loaded, populated) ==
    Cardinality({i \in 1..Len(loaded) : loaded[i].id \notin populated})

\* page_joined: the one s.execute, and what rendering the Todos adds to it
PageJoined(todos, scan, page, size) ==
    LET rows == JoinedRows(todos, scan, page, size)
        loaded == UniqueById([i \in 1..Len(rows) |-> rows[i].todo])
        rendered == [i \in 1..Len(loaded) |->
                        <<loaded[i].title, Bodies(Attached(rows, loaded[i]))>>]
    IN  [todos |-> [i \in 1..Len(loaded) |-> loaded[i].id],
         rendered |-> rendered, count |-> Len(rendered),
         queries |-> 1 + LazyLoads(loaded, Populated(rows))]

----------------------------------------------------------------------------
(* Harness for the two strategies as functions of the stored data *)

None == [todos |-> <<>>, rendered |-> <<>>, count |-> -1, queries |-> -1]
NoReport == [name |-> "none", pages |-> 0, rows |-> -1]

\* Todos 1..n of one owner
SmallTodos(n) ==
    [k \in 1..n |-> [id |-> k, title |-> Title(Username(1), k - 1),
                     is_done |-> ((k - 1) % 3 = 0), user_id |-> 1]]

\* Comment tables of up to MaxComments rows over Todos 1..n; bodies repeat
SmallComments(n) ==
    UNION {{[k \in 1..m |-> [id |-> k, body |-> "c" \o ToString(k % 2), todo_id |-> f[k]]]
              : f \in [1..m -> 1..n]} : m \in 0..MaxComments}

AsyncIdle ==
    /\ db = <<>> /\ mainPc = "off" /\ concIdx = 0
    /\ run = NoReport /\ benchPc = "idle"
    /\ pc = <<>> /\ result = <<>> /\ fetched = <<>> /\ sem = 0 /\ waiters = <<>>
    /\ ahead = {}
    /\ checkedOut = 0 /\ scope = <<>> /\ queries = 0 /\ report = NoReport

NoTable == [exists |-> FALSE, rows |-> {}, seq |-> 0]

ScriptIdle ==
    /\ sPc = "off" /\ committed = NoTable /\ work = NoTable
    /\ txStatus = "idle" /\ xid = 0 /\ all_users = <<>> /\ final_users = <<>>
    /\ count = 0

NoConn == [dbapi |-> 0, proxy |-> 0]

BankIdle ==
    /\ bPc = "off" /\ bank = NoTable /\ bwork = NoTable
    /\ bpool = <<>> /\ made = 0 /\ held = <<>>
    /\ conn_ids = <<>> /\ dbapi_ids = <<>> /\ conn3 = NoConn
    /\ balances = <<>> /\ caught = "none"

NoLoad == [pages |-> 0, concurrency |-> 0]

NoCounts == [gate |-> 0, woken |-> 0, pool |-> 0, fetch |-> 0, returning |-> 0,
             raising |-> 0, unwinding |-> 0, done |-> 0, failed |-> 0,
             timedout |-> 0, cancelled |-> 0, orphaned |-> 0]

LoadIdle == lPc = "off" /\ load = NoLoad /\ at = NoCounts

\* the created schema: three empty tables, the SERIAL sequence of each id
\* column not yet drawn from
EmptyStore ==
    [users |-> <<>>, todos |-> <<>>, comments |-> <<>>,
     seq |-> [users |-> 0, todos |-> 0, comments |-> 0]]

StoreIdle == store = EmptyStore /\ added = "none"

NoRows == [todos |-> <<>>, comments |-> <<>>]

OrmIdle ==
    /\ oPc = "off" /\ ostore = NoRows /\ recorded = <<>> /\ listening = FALSE
    /\ touched = 0 /\ lazy_count = -1 /\ joined_count = -1

LabIdle == BankIdle /\ LoadIdle /\ StoreIdle /\ OrmIdle

PageInit ==
    /\ \E n \in 0..MaxTodos, page \in 0..MaxPage, size \in 1..MaxPageSize :
         \E cs \in SmallComments(n) :
            pg = [todos |-> SmallTodos(n), comments |-> cs, page |-> page,
                  size |-> size, lazy |-> None, joined |-> None,
                  lazyScan |-> <<>>, joinedScan |-> <<>>]
    /\ AsyncIdle /\ ScriptIdle /\ LabIdle

\* one call of page_lazy on the stored data
RunLazy ==
    /\ pg.lazy = None
    /\ \E scan \in Perms(pg.comments) :
         pg' = [pg EXCEPT !.lazy = PageLazy(pg.todos, scan, pg.page, pg.size),
                          !.lazyScan = scan]
    /\ UNCHANGED <<asyncVars, scriptVars, labVars>>

\* one call of page_joined on the stored data
RunJoined ==
    /\ pg.joined = None
    /\ \E scan \in Perms(pg.comments) :
         pg' = [pg EXCEPT !.joined = PageJoined(pg.todos, scan, pg.page, pg.size),
                          !.joinedScan = scan]
    /\ UNCHANGED <<asyncVars, scriptVars, labVars>>

PageNext == RunLazy \/ RunJoined

PageSpec == PageInit /\ [][PageNext]_vars

----------------------------------------------------------------------------
(* The benchmark: bench and main of 09_async_stack/main.py *)

Tasks == DOMAIN pc

NoTasks == [p \in {} |-> "new"]

Finished == {"done", "failed", "cancelled"}

\* inside `async with sem`: the task holds a permit and runs fn(p), or has
\* left fn(p) (its session closed) and not yet released the permit
InGate == {"fetching", "loaded", "erred", "closing",
           "returning", "raising", "unwinding"}

\* AsyncSession.close(): a transaction still open is rolled back
SessionClose(s) == IF s = "open" THEN "rolledback" ELSE s

\* a connection goes back to the pool
CheckinLeak(out) == out

Checkin(out) == out - 1

\* a gate that never reports itself taken
LockedNever == FALSE

\* asyncio.Semaphore.locked()
Locked == sem = 0 \/ waiters # <<>>

\* asyncio.Semaphore._wake_up_next, run while permits are free: each free
\* permit goes to the first waiter not woken yet
RECURSIVE WakeUp(_, _, _)
WakeUp(value, ws, pcs) ==
    LET asleep == {i \in 1..Len(ws) : pcs[ws[i]] = "waiting"}
    IN  IF value = 0 \/ asleep = {}
        THEN [sem |-> value, pc |-> pcs]
        ELSE LET i == CHOOSE k \in asleep : \A j \in asleep : k <= j
             IN  WakeUp(value - 1, ws, [pcs EXCEPT ![ws[i]] = "woken"])

\* the waiters whose future is still pending: once asyncio.run has swept
\* the tasks, the future of every task at the gate is cancelled or done
Pending(phase, ws) == IF phase = "teardown" THEN <<>> ELSE ws

\* a release that neither frees the permit nor wakes a waiter
ReleaseLeaks(value, ws, pcs) == [sem |-> value, pc |-> pcs]

\* asyncio.Semaphore.release()
Release(value, ws, pcs) == WakeUp(value + 1, ws, pcs)

Without(ws, p) == SelectSeq(ws, LAMBDA q : q # p)

\* fn(p) on the tables d, for the fn of the run; the store returns Comment
\* rows in table order (the order changes neither the count nor the number
\* of statements, which is all bench keeps)
FetchOn(name, d, p) ==
    IF name = "lazy"
    THEN PageLazy(d.todos, d.comments, p, PAGE_SIZE)
    ELSE PageJoined(d.todos, d.comments, p, PAGE_SIZE)

\* the pages of the seeded tables, computed once
SeededFetch ==
    [name \in {"lazy", "joined"}, p \in 0..MaxPages |-> FetchOn(name, SeededDb, p)]

Fetch(name, log, p) ==
    IF log = SeededLog /\ p \in 0..MaxPages
    THEN SeededFetch[name, p]
    ELSE FetchOn(name, StoredTables(log), p)

\* a fetch that leaves the rows of a seeding behind
FetchAppends(name, log) == Append(log, "seed")

\* the store after fn(p): page_lazy and page_joined issue SELECT statements
\* only, and their session is closed without a commit
AfterFetch(name, log) == log

\* the number of results instead of their sum
TotalCount(results) == Cardinality(DOMAIN results)

\* sum(results)
Total(results) == SumSeq([i \in 1..Cardinality(DOMAIN results) |-> results[i - 1]])

benchVars == <<run, benchPc, pc, result, fetched, sem, waiters, ahead, checkedOut, scope,
               queries, report>>

PageIdle ==
    pg = [todos |-> <<>>, comments |-> <<>>, page |-> 0, size |-> 1,
          lazy |-> None, joined |-> None, lazyScan |-> <<>>, joinedScan |-> <<>>]

Init ==
    /\ db \in {<<>>, SeededLog}
    /\ mainPc = "start" /\ concIdx = 0
    /\ run = NoReport /\ benchPc = "idle"
    /\ pc = NoTasks /\ result = NoTasks /\ fetched = NoTasks /\ sem = 0 /\ waiters = <<>>
    /\ ahead = {}
    /\ checkedOut = 0 /\ scope = NoTasks /\ queries = 0 /\ report = NoReport
    /\ PageIdle /\ ScriptIdle /\ LabIdle

\* a drop_all that leaves the tables and their rows in place
DropAllKeeps(log) == log

\* Base.metadata.drop_all, then create_all: the three tables exist and are
\* empty, whatever was committed before
DropAll(log) == <<>>

\* reset_and_seed, first block: drop_all and create_all in one transaction
ResetSchema ==
    /\ mainPc = "start"
    /\ db' = DropAll(db)
    /\ mainPc' = "schema"
    /\ UNCHANGED <<concIdx, benchVars, pg, scriptVars, labVars>>

\* reset_and_seed, second block: the session adds the rows and commits
SeedData ==
    /\ mainPc = "schema"
    /\ db' = Append(db, "seed")
    /\ mainPc' = "seeded"
    /\ UNCHANGED <<concIdx, benchVars, pg, scriptVars, labVars>>

\* warm-up: await page_lazy(0), then await page_joined(0)
WarmUp ==
    /\ mainPc \in {"seeded", "warm"}
    /\ mainPc' = IF mainPc = "seeded" THEN "warm" ELSE "lazy"
    /\ concIdx' = IF mainPc = "seeded" THEN concIdx ELSE 1
    /\ queries' = queries +
          Fetch(IF mainPc = "seeded" THEN "lazy" ELSE "joined", db, 0).queries
    /\ db' = AfterFetch(IF mainPc = "seeded" THEN "lazy" ELSE "joined", db)
    /\ UNCHANGED <<run, benchPc, pc, result, fetched, sem, waiters, ahead, checkedOut, scope,
                   report, pg, scriptVars, labVars>>

\* a warm-up fetch raises: main ends with the exception
WarmUpFail ==
    /\ mainPc \in {"seeded", "warm"}
    /\ mainPc' = "aborted"
    /\ UNCHANGED <<db, concIdx, benchVars, pg, scriptVars, labVars>>

\* bench up to its await: the gate, and one task per page handed to gather
BenchCall ==
    /\ mainPc \in {"lazy", "joined"} /\ benchPc = "idle"
    /\ \E n \in 0..MaxPages :
         /\ run' = [name |-> mainPc, pages |-> n, concurrency |-> concIdx]
         /\ pc' = [p \in 0..(n - 1) |-> "new"]
         /\ result' = [p \in 0..(n - 1) |-> -1]
         /\ fetched' = [p \in 0..(n - 1) |-> <<>>]
         /\ scope' = [p \in 0..(n - 1) |-> "none"]
    /\ sem' = concIdx /\ waiters' = <<>> /\ ahead' = {}
    /\ queries' = 0
    /\ benchPc' = "gather"
    /\ UNCHANGED <<db, mainPc, concIdx, checkedOut, report, pg, scriptVars, labVars>>

\* first step of run_page(p): sem.acquire() either queues the task or takes
\* a permit, and with the permit the same callback goes on into fn(p) up to
\* the first wait of s.execute, the session's connection checked out of the
\* pool and its transaction begun.  (The caps of these runs are below the
\* pool's ceiling: the pool has a connection for every task inside the
\* gate.)  The tasks take their first step in the order gather created them.
Start(p) ==
    /\ benchPc = "gather" /\ p \in Tasks /\ pc[p] = "new"
    /\ \A q \in Tasks : q < p => pc[q] # "new"
    /\ IF Locked
       THEN /\ waiters' = Append(waiters, p)
            /\ pc' = [pc EXCEPT ![p] = "waiting"]
            /\ UNCHANGED <<sem, checkedOut, scope>>
       ELSE /\ sem' = sem - 1
            /\ pc' = [pc EXCEPT ![p] = "fetching"]
            /\ checkedOut' = checkedOut + 1
            /\ scope' = [scope EXCEPT ![p] = "open"]
            /\ waiters' = waiters
    /\ UNCHANGED <<db, mainPc, concIdx, run, benchPc, result, fetched, ahead,
                   queries, report, pg, scriptVars, labVars>>

\* the tasks run on the loop: all have taken their first step, and the loop
\* has not been torn down
TasksRun ==
    /\ benchPc \in {"gather", "raised"} /\ mainPc # "teardown"
    /\ \A q \in Tasks : pc[q] # "new"

\* a woken waiter resumes inside sem.acquire() and, in the same callback,
\* enters the gate and fn(p) up to the first wait of s.execute
Resume(p) ==
    /\ TasksRun /\ p \in Tasks /\ pc[p] = "woken"
    /\ LET w == WakeUp(sem, Without(waiters, p), [pc EXCEPT ![p] = "fetching"])
       IN  /\ sem' = w.sem
           /\ pc' = w.pc
    /\ waiters' = Without(waiters, p)
    /\ ahead' = ahead \ {p}
    /\ checkedOut' = checkedOut + 1
    /\ scope' = [scope EXCEPT ![p] = "open"]
    /\ UNCHANGED <<db, mainPc, concIdx, run, benchPc, result, fetched,
                   queries, report, pg, scriptVars, labVars>>

\* the statements of the page run and the rows are rendered
Execute(p) ==
    /\ TasksRun /\ p \in Tasks /\ pc[p] = "fetching"
    /\ LET r == Fetch(run.name, db, p)
       IN  /\ result' = [result EXCEPT ![p] = r.count]
           /\ fetched' = [fetched EXCEPT ![p] = r.todos]
           /\ queries' = queries + r.queries
    /\ pc' = [pc EXCEPT ![p] = "loaded"]
    /\ db' = AfterFetch(run.name, db)
    /\ UNCHANGED <<mainPc, concIdx, run, benchPc, sem, waiters, ahead, checkedOut, scope,
                   report, pg, scriptVars, labVars>>

\* a statement of the page fails with a store error
ExecFail(p) ==
    /\ TasksRun /\ p \in Tasks /\ pc[p] = "fetching"
    /\ \E k \in 1..Fetch(run.name, db, p).queries : queries' = queries + k
    /\ pc' = [pc EXCEPT ![p] = "erred"]
    /\ UNCHANGED <<db, mainPc, concIdx, run, benchPc, result, fetched, sem, waiters, ahead,
                   checkedOut, scope, report, pg, scriptVars, labVars>>

\* the close task that the exit of `async with Session()` created has
\* rolled the transaction back and returned the connection to the pool; the
\* page task, waiting on the shielded close, is still inside the gate
Close(p) ==
    /\ TasksRun /\ p \in Tasks /\ pc[p] \in {"loaded", "erred"}
    /\ scope' = [scope EXCEPT ![p] = SessionClose(scope[p])]
    /\ checkedOut' = Checkin(checkedOut)
    /\ pc' = [pc EXCEPT ![p] = IF pc[p] = "loaded" THEN "returning" ELSE "raising"]
    /\ UNCHANGED <<db, mainPc, concIdx, run, benchPc, result, fetched, sem, waiters, ahead,
                   queries, report, pg, scriptVars, labVars>>

\* the page task resumes after the close and leaves `async with sem`: the
\* permit is released (the first sleeping waiter is handed it) and the task
\* ends with its value, its exception or its cancellation
Finish(p) ==
    /\ p \in Tasks
    /\ \/ TasksRun /\ pc[p] \in {"returning", "raising"}
       \/ mainPc = "teardown" /\ pc[p] = "unwinding"
    /\ LET end == IF pc[p] = "returning" THEN "done"
                  ELSE IF pc[p] = "raising" THEN "failed" ELSE "cancelled"
           r == Release(sem, Pending(mainPc, waiters), [pc EXCEPT ![p] = end])
       IN  /\ sem' = r.sem
           /\ pc' = r.pc
           /\ ahead' = IF end = "failed" /\ \A q \in Tasks : pc[q] # "failed"
                       THEN {q \in Tasks : pc[q] = "waiting" /\ r.pc[q] = "woken"}
                       ELSE ahead
    /\ UNCHANGED <<db, mainPc, concIdx, run, benchPc, result, fetched, waiters,
                   checkedOut, scope, queries, report, pg, scriptVars, labVars>>

\* a gather that returns before its tasks have ended
GatheredEarly(pcs) == TRUE

\* await asyncio.gather(*tasks) returns once every task has returned
Gathered(pcs) == \A p \in DOMAIN pcs : pcs[p] = "done"

\* gather has every result: bench prints its line and returns to main
BenchReport ==
    /\ benchPc = "gather"
    /\ Gathered(pc)
    /\ report' = [name |-> run.name, pages |-> run.pages, rows |-> Total(result)]
    /\ benchPc' = "idle"
    /\ mainPc' = IF mainPc = "lazy" THEN "joined"
                 ELSE IF concIdx < MaxConc THEN "lazy" ELSE "dispose"
    /\ concIdx' = IF mainPc = "joined" /\ concIdx < MaxConc
                  THEN concIdx + 1 ELSE concIdx
    /\ UNCHANGED <<db, run, pc, result, fetched, sem, waiters, ahead, checkedOut, scope, queries,
                   pg, scriptVars, labVars>>

\* gather (return_exceptions left False) passes the first exception on:
\* bench and main end with it, nothing is printed.  The waiter that the
\* first failing task woke resumes before main does: its wake-up was queued
\* before the task ended.
BenchRaise ==
    /\ benchPc = "gather"
    /\ \E p \in Tasks : pc[p] = "failed"
    /\ ahead = {}
    /\ benchPc' = "raised"
    /\ mainPc' = "aborted"
    /\ UNCHANGED <<db, concIdx, run, pc, result, fetched, sem, waiters, ahead, checkedOut,
                   scope, queries, report, pg, scriptVars, labVars>>

\* asyncio.run after main raised: _cancel_all_tasks requests the
\* cancellation of every task left; each of them ends in a later callback
\* of its own
Teardown ==
    /\ mainPc = "aborted"
    /\ mainPc' = "teardown"
    /\ UNCHANGED <<db, concIdx, benchVars, pg, scriptVars, labVars>>

\* CancelledError reaches a task.  In sem.acquire() the task leaves the
\* queue of waiters and ends, giving back the permit it was handed if it
\* had been woken.  Inside s.execute the error passes through the
\* statement: the engine invalidates the connection, which ends its
\* transaction and checks it in, and the task leaves the
\* `async with Session()` block, whose exit awaits a close task created
\* after the sweep.  Waiting on a shielded close task, or with its session
\* closed already, it leaves the gate and ends at once: in the first case
\* its connection, if the close task has not returned it yet, is still out
\* and its transaction open, left to the close task, which was swept too
Cancel(p) ==
    /\ mainPc = "teardown" /\ p \in Tasks
    /\ pc[p] \in ({"waiting", "woken"} \cup InGate) \ {"closing", "unwinding"}
    /\ IF pc[p] = "fetching"
       THEN /\ pc' = [pc EXCEPT ![p] = "closing"]
            /\ scope' = [scope EXCEPT ![p] = SessionClose(scope[p])]
            /\ checkedOut' = Checkin(checkedOut)
            /\ sem' = sem
            /\ waiters' = waiters
       ELSE /\ pc' = [pc EXCEPT ![p] = "cancelled"]
            /\ sem' = IF pc[p] = "waiting" THEN sem ELSE sem + 1
            /\ waiters' = Without(waiters, p)
            /\ UNCHANGED <<checkedOut, scope>>
    /\ UNCHANGED <<db, mainPc, concIdx, run, benchPc, result, fetched, ahead,
                   queries, report, pg, scriptVars, labVars>>

\* the close task a task cancelled in s.execute awaits is done (its
\* connection went back when the statement was cancelled); the task, about
\* to resume, is still inside the gate
Unwind(p) ==
    /\ mainPc = "teardown" /\ p \in Tasks /\ pc[p] = "closing"
    /\ pc' = [pc EXCEPT ![p] = "unwinding"]
    /\ UNCHANGED <<db, mainPc, concIdx, run, benchPc, result, fetched, sem, waiters,
                   ahead, checkedOut, scope, queries, report, pg, scriptVars, labVars>>

\* a close task swept while under way ends in a callback of its own: the
\* transaction is ended and the connection goes back to the pool, before
\* its page task takes its cancellation or after that task has ended.  A
\* close task swept before its first step never runs: this step is not
\* taken, and the loop closes with the connection out and the transaction
\* open
Orphan(p) ==
    /\ mainPc = "teardown" /\ p \in Tasks
    /\ pc[p] \in {"loaded", "erred", "cancelled"} /\ scope[p] = "open"
    /\ scope' = [scope EXCEPT ![p] = SessionClose(scope[p])]
    /\ checkedOut' = Checkin(checkedOut)
    /\ UNCHANGED <<db, mainPc, concIdx, run, benchPc, pc, result, fetched, sem, waiters,
                   ahead, queries, report, pg, scriptVars, labVars>>

\* the loop closes once every cancelled task has ended
Exit ==
    /\ mainPc = "teardown"
    /\ \A p \in Tasks : pc[p] \in Finished
    /\ mainPc' = "exited"
    /\ UNCHANGED <<db, concIdx, benchVars, pg, scriptVars, labVars>>

\* await engine.dispose()
Dispose ==
    /\ mainPc = "dispose"
    /\ mainPc' = "done"
    /\ UNCHANGED <<db, concIdx, benchVars, pg, scriptVars, labVars>>

TaskStep(p) ==
    \/ Start(p) \/ Resume(p) \/ Execute(p) \/ ExecFail(p)
    \/ Close(p) \/ Finish(p) \/ Cancel(p) \/ Unwind(p) \/ Orphan(p)

Next ==
    \/ ResetSchema \/ SeedData \/ WarmUp \/ WarmUpFail
    \/ BenchCall \/ BenchReport \/ BenchRaise
    \/ Teardown \/ Exit \/ Dispose
    \/ \E p \in 0..(MaxPages - 1) : TaskStep(p)

Spec == Init /\ [][Next]_vars

\* the event loop runs every task that can take a step
FairSpec == Spec /\ WF_vars(Next) /\ \A p \in 0..(MaxPages - 1) : WF_vars(TaskStep(p))

----------------------------------------------------------------------------
(* The low-level script: 06_low_level/test5_server_side_cursor.py, the      *)
(* first connection block (steps 2 to 7).  A row carries xmin, the id of   *)
(* the transaction that wrote it; rows of earlier runs have xmin 0.        *)

Row(id, name, email, x) == [id |-> id, name |-> name, email |-> email, xmin |-> x]

\* what test2_create_table.py commits
SampleRows ==
    {Row(1, "Alice Johnson", "alice.j@example.com", 0),
     Row(2, "Bob Smith", "bob.s@example.com", 0)}

\* what step 8 of an earlier run commits: User_i, user_i@example.com
StreamRows ==
    {Row(i + 1, "User_" \o ToString(i), "user_" \o ToString(i) \o "@example.com", 0) :
        i \in 0..(MaxPriorUsers - 1)}

\* test_users before the script runs: absent, or left by an earlier script
\* (with any of its rows deleted since)
PriorTables ==
    {NoTable}
    \cup {[exists |-> TRUE, rows |-> rs, seq |-> 2] : rs \in SUBSET SampleRows}
    \cup {[exists |-> TRUE, rows |-> rs, seq |-> MaxPriorUsers] : rs \in SUBSET StreamRows}

\* INSERT INTO test_users (name, email): the serial takes its next value,
\* then the UNIQUE constraint on email decides
Insert(t, x, name, email) ==
    IF \E r \in t.rows : r.email = email
    THEN [ok |-> FALSE, table |-> [t EXCEPT !.seq = t.seq + 1]]
    ELSE [ok |-> TRUE,
          table |-> [t EXCEPT !.seq = t.seq + 1,
                              !.rows = t.rows \cup {Row(t.seq + 1, name, email, x)}]]

\* SELECT id, name, email FROM test_users ORDER BY id
RECURSIVE RowsById(_)
RowsById(rs) ==
    IF rs = {} THEN <<>>
    ELSE LET low == CHOOSE r \in rs : \A q \in rs : r.id <= q.id
         IN  <<low>> \o RowsById(rs \ {low})

\* a connection in autocommit mode: each statement is committed at once
Autocommit(c, w) == w

\* psycopg.connect() without autocommit: a statement changes the connection's
\* transaction only, the committed state stays as it is
AfterStatement(c, w) == c

\* a rollback that leaves the connection's view as it is
RolledBackKeeps(c, w) == w

\* conn.rollback(): the connection sees the committed state again
RolledBack(c, w) == c

ScriptInit ==
    /\ committed \in PriorTables
    /\ work = NoTable
    /\ sPc = "start" /\ txStatus = "idle" /\ xid = 0 /\ all_users = <<>> /\ final_users = <<>>
    /\ count = 0
    /\ AsyncIdle /\ PageIdle /\ LabIdle

\* psycopg.connect(dsn_from_env)
SConnect ==
    /\ sPc = "start"
    /\ sPc' = "connected"
    /\ work' = committed
    /\ UNCHANGED <<committed, txStatus, xid, all_users, final_users, count, asyncVars, pg, labVars>>

\* the connection cannot be made: OperationalError, caught at line 139
SConnectFail ==
    /\ sPc = "start"
    /\ sPc' = "failed"
    /\ UNCHANGED <<committed, work, txStatus, xid, all_users, final_users, count, asyncVars, pg, labVars>>

\* SELECT version(): the first statement begins the transaction
SelectVersion ==
    /\ sPc = "connected"
    /\ txStatus' = "intrans" /\ xid' = xid + 1
    /\ work' = committed
    /\ sPc' = "versioned"
    /\ UNCHANGED <<committed, all_users, final_users, count, asyncVars, pg, labVars>>

\* step 2: DROP TABLE IF EXISTS test_users
DropTable ==
    /\ sPc = "versioned"
    /\ work' = NoTable
    /\ sPc' = "dropped"
    /\ committed' = AfterStatement(committed, work')
    /\ UNCHANGED <<txStatus, xid, all_users, final_users, count, asyncVars, pg, labVars>>

\* step 2: CREATE TABLE IF NOT EXISTS test_users
CreateTable ==
    /\ sPc = "dropped"
    /\ work' = IF work.exists THEN work ELSE [NoTable EXCEPT !.exists = TRUE]
    /\ sPc' = "created"
    /\ committed' = AfterStatement(committed, work')
    /\ UNCHANGED <<txStatus, xid, all_users, final_users, count, asyncVars, pg, labVars>>

\* step 3: SELECT EXISTS (... pg_tables ...)
VerifyTable ==
    /\ sPc = "created"
    /\ sPc' = "verified"
    /\ UNCHANGED <<committed, work, txStatus, xid, all_users, final_users, count, asyncVars, pg, labVars>>

\* step 4: one INSERT with parameters
InsertCharlie ==
    /\ sPc = "verified"
    /\ LET r == Insert(work, xid, "Charlie Brown", "charlie.b@example.com")
       IN  /\ work' = r.table
           /\ sPc' = IF r.ok THEN "inserted1" ELSE "failed"
    /\ committed' = AfterStatement(committed, work')
    /\ UNCHANGED <<txStatus, xid, all_users, final_users, count, asyncVars, pg, labVars>>

\* step 5: executemany of two rows
InsertMany ==
    /\ sPc = "inserted1"
    /\ LET a == Insert(work, xid, "Alice Johnson", "alice.j@example.com")
           b == Insert(a.table, xid, "Bob Smith", "bob.s@example.com")
       IN  /\ work' = IF a.ok THEN b.table ELSE a.table
           /\ sPc' = IF a.ok /\ b.ok THEN "inserted3" ELSE "failed"
    /\ committed' = AfterStatement(committed, work')
    /\ UNCHANGED <<txStatus, xid, all_users, final_users, count, asyncVars, pg, labVars>>

\* step 6: read the rows back
ReadAll ==
    /\ sPc = "inserted3"
    /\ all_users' = RowsById(work.rows)
    /\ sPc' = "read6"
    /\ UNCHANGED <<committed, work, txStatus, xid, final_users, count, asyncVars, pg, labVars>>

\* step 7, first write: 'David Green'
InsertDavid ==
    /\ sPc = "read6"
    /\ LET r == Insert(work, xid, "David Green", "david.g@example.com")
       IN  /\ work' = r.table
           /\ sPc' = IF r.ok THEN "w1" ELSE "caught"
           /\ txStatus' = IF r.ok THEN txStatus ELSE "inerror"
    /\ committed' = AfterStatement(committed, work')
    /\ UNCHANGED <<xid, all_users, final_users, count, asyncVars, pg, labVars>>

\* step 7, second write: the email of 'Alice Johnson' again; psycopg.Error
\* takes the script to the except block
InsertDuplicate ==
    /\ sPc = "w1"
    /\ LET r == Insert(work, xid, "Duplicate User", "alice.j@example.com")
       IN  /\ work' = r.table
           /\ sPc' = IF r.ok THEN "finally" ELSE "caught"
           /\ txStatus' = IF r.ok THEN txStatus ELSE "inerror"
    /\ committed' = AfterStatement(committed, work')
    /\ UNCHANGED <<xid, all_users, final_users, count, asyncVars, pg, labVars>>

\* except psycopg.Error: conn.rollback()
Rollback ==
    /\ sPc = "caught"
    /\ work' = RolledBack(committed, work)
    /\ txStatus' = "idle"
    /\ sPc' = "finally"
    /\ UNCHANGED <<committed, xid, all_users, final_users, count, asyncVars, pg, labVars>>

\* finally: the verification read, in a new transaction; it raises when
\* test_users does not exist, and the connection block then rolls back
FinalRead ==
    /\ sPc = "finally"
    /\ IF txStatus # "inerror" /\ work.exists
       THEN /\ final_users' = RowsById(work.rows)
            /\ sPc' = "read7"
            /\ txStatus' = "intrans"
            /\ xid' = IF txStatus = "idle" THEN xid + 1 ELSE xid
            /\ work' = work
       ELSE /\ sPc' = "failed"
            /\ txStatus' = "idle"
            /\ work' = committed
            /\ UNCHANGED <<xid, final_users>>
    /\ UNCHANGED <<committed, all_users, count, asyncVars, pg, labVars>>

\* the connection block ends normally: commit, then close
CloseConn ==
    /\ sPc = "read7"
    /\ committed' = work
    /\ txStatus' = "idle"
    /\ sPc' = "closed"
    /\ UNCHANGED <<work, xid, all_users, final_users, count, asyncVars, pg, labVars>>

\* range(10000): the rows step 8 inserts
STREAM_USERS == 10000

\* `if count >= 5: break`: the rows step 8 reads from the cursor
STREAM_READ == 5

\* users_to_insert: (User_i, user_i@example.com) for i in range(10000)
users_to_insert ==
    [k \in 1..STREAM_USERS |->
        <<"User_" \o ToString(k - 1), "user_" \o ToString(k - 1) \o "@example.com">>]

\* cur.executemany(INSERT ..., users): the rows are inserted in order, each
\* taking the next value of the serial; the statement fails when an email is
\* already in the table (the emails of users_to_insert are pairwise distinct)
ExecuteMany(t, x, users) ==
    IF \E r \in t.rows : \E k \in 1..Len(users) : r.email = users[k][2]
    THEN [ok |-> FALSE, table |-> t]
    ELSE [ok |-> TRUE,
          table |-> [t EXCEPT !.seq = t.seq + Len(users),
                              !.rows = t.rows \cup
                                  {Row(t.seq + k, users[k][1], users[k][2], x) :
                                      k \in 1..Len(users)}]]

\* step 8: a second psycopg.connect(dsn_from_env), whether the first block
\* ended normally or with an error that was caught
StreamConnect ==
    /\ sPc \in {"closed", "failed"}
    /\ sPc' = "connected8"
    /\ work' = committed
    /\ txStatus' = "idle"
    /\ UNCHANGED <<committed, xid, all_users, final_users, count, asyncVars, pg, labVars>>

\* step 8: the connection cannot be made: OperationalError, caught at the end
\* of the script
StreamConnectFail ==
    /\ sPc \in {"closed", "failed"}
    /\ sPc' = "ended"
    /\ UNCHANGED <<committed, work, txStatus, xid, all_users, final_users, count,
                   asyncVars, pg, labVars>>

\* step 8: DROP TABLE IF EXISTS test_users, the first statement of a new
\* transaction
StreamDrop ==
    /\ sPc = "connected8"
    /\ txStatus' = "intrans" /\ xid' = xid + 1
    /\ work' = NoTable
    /\ committed' = AfterStatement(committed, work')
    /\ sPc' = "dropped8"
    /\ UNCHANGED <<all_users, final_users, count, asyncVars, pg, labVars>>

\* step 8: CREATE TABLE test_users
StreamCreate ==
    /\ sPc = "dropped8"
    /\ work' = [NoTable EXCEPT !.exists = TRUE]
    /\ committed' = AfterStatement(committed, work')
    /\ sPc' = "created8"
    /\ UNCHANGED <<txStatus, xid, all_users, final_users, count, asyncVars, pg, labVars>>

\* step 8: executemany of the 10000 rows
StreamInsert ==
    /\ sPc = "created8"
    /\ LET r == ExecuteMany(work, xid, users_to_insert)
       IN  /\ work' = r.table
           /\ sPc' = IF r.ok THEN "inserted8" ELSE "ended"
           /\ txStatus' = IF r.ok THEN txStatus ELSE "idle"
    /\ committed' = AfterStatement(committed, work')
    /\ UNCHANGED <<xid, all_users, final_users, count, asyncVars, pg, labVars>>

\* step 8: the named cursor is read until five rows have been seen
StreamRead ==
    /\ sPc = "inserted8"
    /\ count' = Min(STREAM_READ, Cardinality(work.rows))
    /\ sPc' = "read8"
    /\ UNCHANGED <<committed, work, txStatus, xid, all_users, final_users,
                   asyncVars, pg, labVars>>

\* step 8: the connection block ends normally: commit, then close
StreamCommit ==
    /\ sPc = "read8"
    /\ committed' = work
    /\ txStatus' = "idle"
    /\ sPc' = "ended"
    /\ UNCHANGED <<work, xid, all_users, final_users, count, asyncVars, pg, labVars>>

ScriptNext ==
    \/ SConnect \/ SConnectFail \/ SelectVersion \/ DropTable \/ CreateTable
    \/ VerifyTable \/ InsertCharlie \/ InsertMany \/ ReadAll \/ InsertDavid
    \/ InsertDuplicate \/ Rollback \/ FinalRead \/ CloseConn
    \/ StreamConnect \/ StreamConnectFail \/ StreamDrop \/ StreamCreate
    \/ StreamInsert \/ StreamRead \/ StreamCommit

ScriptSpec == ScriptInit /\ [][ScriptNext]_vars

----------------------------------------------------------------------------
(* Properties of the benchmark (Spec, FairSpec) *)

InGateNow == {p \in Tasks : pc[p] \in InGate}

\* bench has just printed the line of a run of fn `name`
Reported(name) == benchPc = "idle" /\ report.name = name

\* the reference run of main on the seeded tables: the value fn returns and
\* the statements it issues, per page
ReferenceRun ==
    [name \in {"lazy", "joined"} |->
        [p \in 0..(REF_PAGES - 1) |-> FetchOn(name, SeededDb, p)]]

ReferenceRows ==
    [name \in {"lazy", "joined"} |->
        Total([p \in 0..(REF_PAGES - 1) |-> ReferenceRun[name][p].count])]

ReferenceQueries ==
    [name \in {"lazy", "joined"} |->
        SumSeq([i \in 1..REF_PAGES |-> ReferenceRun[name][i - 1].queries])]

\* C1: in a bench run with cap C, the page tasks executing fn at the same
\* time (inside the gate) never number more than C
C1_GateCap ==
    run # NoReport => Cardinality(InGateNow) <= run.concurrency

\* C1 witness: the gate is full (2 tasks inside at cap 2) and a task waits
C1_Witness ==
    /\ run # NoReport /\ run.concurrency = 2
    /\ Cardinality(InGateNow) = 2
    /\ \E p \in Tasks : pc[p] = "waiting"

\* C2: when a page task fails, every sibling page still runs to its own
\* completion, success or failure (none is cut short)
C2_SiblingsComplete ==
    (\E p \in Tasks : pc[p] = "failed") =>
        \A q \in Tasks : pc[q] # "cancelled"

\* C3: a run with a failed page still ends normally with its aggregate: the
\* line is printed, the failed page counting for zero rows
C3_FailedRunReports ==
    (benchPc # "gather" /\ \E p \in Tasks : pc[p] = "failed") =>
        /\ benchPc = "idle"
        /\ report.rows = Total([p \in Tasks |->
                                  IF pc[p] = "done" THEN result[p] ELSE 0])

\* C4: under fair scheduling every page task passes the gate and finishes
\* (with its value or its own error), and bench reports only after every
\* page task has finished
C4_Completion ==
    /\ \A p \in 0..(MaxPages - 1) :
          (p \in Tasks /\ pc[p] = "new") ~> (p \in Tasks /\ pc[p] \in {"done", "failed"})
    /\ [][benchPc = "gather" /\ benchPc' = "idle"
            => \A p \in Tasks : pc[p] \in {"done", "failed"}]_vars

\* C5 as stated: the "lazy" run issues 1 + PAGE_SIZE statements per page, the
\* "joined" run one per page
C5_Original ==
    /\ Reported("lazy") => queries = report.pages * (1 + PAGE_SIZE)
    /\ Reported("joined") => queries = report.pages

\* C5 amended: page_lazy loads the Comments of a page with one IN statement,
\* so the "lazy" run issues 2 statements per page (100 for the 50 pages of
\* main, not 1050); the "joined" run issues 1 per page (50 for 50 pages)
C5_LazyTwoPerPage ==
    /\ Reported("lazy") => queries = 2 * report.pages
    /\ Reported("joined") => queries = report.pages
    /\ ReferenceQueries["lazy"] = 100
    /\ ReferenceQueries["joined"] = 50

\* C5 witness: a "lazy" run of several pages has been reported
C5_Witness ==
    Reported("lazy") /\ report.pages >= 2 /\ queries = 2 * report.pages

\* C9: with no failed page the total bench prints is the sum of the per-page
\* Task counts (PAGE_SIZE per page on the seeded tables), whatever the cap
\* and the interleaving; 50 pages give 1000 rows for both strategies
C9_RowsRendered ==
    /\ \A name \in {"lazy", "joined"} :
          Reported(name) =>
             /\ report.rows = SumSeq([i \in 1..report.pages |->
                                        Fetch(name, db, i - 1).count])
             /\ report.rows = PAGE_SIZE * report.pages
    /\ ReferenceRows["lazy"] = 1000
    /\ ReferenceRows["joined"] = 1000

\* C9 witness: a "joined" run of several pages ended at cap 2 after tasks
\* had to wait for the gate in an earlier run
C9_Witness ==
    /\ Reported("joined") /\ report.pages >= 2 /\ run.concurrency = 2
    /\ report.rows = PAGE_SIZE * report.pages

----------------------------------------------------------------------------
(* Properties of the two strategies (PageSpec) *)

Titles(r) == [i \in 1..Len(r.rendered) |-> r.rendered[i][1]]

\* the ids of the Todos ranked offset+1 .. offset+size among ids 1..n
PageIds(n, page, size) ==
    [i \in 1..(IF n > page * size THEN Min(size, n - page * size) ELSE 0) |->
        page * size + i]

C7_SameResult ==
    (pg.lazy # None /\ pg.joined # None) =>
        /\ Titles(pg.lazy) = Titles(pg.joined)
        /\ pg.lazy.todos = pg.joined.todos
        /\ \A i \in 1..Len(pg.lazy.rendered) :
              SameBag(pg.lazy.rendered[i][2], pg.joined.rendered[i][2])
        /\ pg.lazy.count = pg.joined.count

\* C7 witness: both strategies ran on a page of two Tasks, one with two
\* Comments, the store returning rows in different orders to the two
C7_Witness ==
    /\ pg.lazy # None /\ pg.joined # None
    /\ pg.lazy.count = 2
    /\ \E i \in 1..2 : Len(pg.lazy.rendered[i][2]) = 2
    /\ pg.lazyScan # pg.joinedScan

\* C8: in page_joined every Task of the page appears exactly once, with all
\* its Comments attached in the order the store returned them; the limit
\* counts Tasks, so a page the table can fill holds `size` Tasks and the
\* count returned is the number of Tasks, not of joined rows
C8_JoinedCollapses ==
    pg.joined # None =>
        LET ids == PageIds(Len(pg.todos), pg.page, pg.size)
        IN  /\ pg.joined.todos = ids
            /\ \A i \in 1..Len(ids) :
                  pg.joined.rendered[i][2] =
                     Bodies(CommentsOf(pg.joinedScan, {ids[i]}))
            /\ pg.joined.count = Len(ids)
            /\ Len(pg.todos) >= (pg.page + 1) * pg.size
                  => pg.joined.count = pg.size

\* C8 witness: a full page of two Tasks whose join has three rows
C8_Witness ==
    /\ pg.joined # None /\ pg.size = 2 /\ pg.joined.count = 2
    /\ Len(pg.joined.rendered[1][2]) + Len(pg.joined.rendered[2][2]) = 2
    /\ \E i \in 1..2 : Len(pg.joined.rendered[i][2]) = 2
    /\ Len(JoinedRows(pg.todos, pg.joinedScan, pg.page, pg.size)) = 3

----------------------------------------------------------------------------
(* Properties of the low-level script (ScriptSpec) *)

\* the rows a read on the connection returns
Visible == IF work.exists THEN work.rows ELSE {}

ScopeWrites == {"David Green", "Duplicate User"}

\* positions of step 8, the second connection block
Step8 == {"connected8", "dropped8", "created8", "inserted8", "read8", "ended"}

\* C10: once the scope that wrote 'David Green' and failed on the duplicate
\* email is rolled back, no read sees either row
C10_RollbackHidesWrites ==
    sPc \in {"finally", "read7", "closed", "failed"} \cup Step8 =>
        /\ \A r \in Visible \cup committed.rows : r.name \notin ScopeWrites
        /\ sPc \in {"read7", "closed"} =>
              \A i \in 1..Len(final_users) : final_users[i].name \notin ScopeWrites

\* C10 witness: the verification read ran after the rollback, over a table
\* that holds rows, 'David Green' having been written in the first scope
C10_Witness ==
    /\ sPc = "read7" /\ xid = 2
    /\ \E i \in 1..Len(all_users) : all_users[i].name = "Alice Johnson"
    /\ final_users # <<>>

\* the script's statements before the duplicate insert have run: step 6 read
\* back exactly the three rows of steps 4 and 5 from the re-created table
Rebuilt ==
    /\ Len(all_users) = 3
    /\ all_users[1].name = "Charlie Brown"
    /\ all_users[2].name = "Alice Johnson"
    /\ all_users[3].name = "Bob Smith"

\* C25: nothing is committed between the connect and the duplicate insert
\* (the committed table changes only when a connection block ends), so
\* after conn.rollback() the connection sees the table as it was before the
\* script's first statement: the drop, the re-creation, the three inserts
\* and 'David Green' are all gone, and the verification read returns the
\* prior rows, or raises when there was no table before the script
C25_RollbackRestoresPrior ==
    /\ [][sPc \notin {"read7", "read8"} => committed' = committed]_vars
    /\ [](sPc \in {"finally", "read7"} => work = committed)
    /\ [](sPc = "read7" =>
            /\ committed.exists
            /\ final_users = RowsById(committed.rows))
    /\ [](sPc \in {"finally", "read7"} /\ committed.rows = {} => Visible = {})
    /\ [][sPc = "finally" /\ ~committed.exists => sPc' = "failed"]_vars

\* C25 witness: the three rows were written and read back, the rollback ran,
\* and the verification read returned the one row the table held before the
\* script started, none of the script's own
C25_Witness ==
    /\ sPc = "read7" /\ Rebuilt
    /\ committed.rows = {Row(2, "Bob Smith", "bob.s@example.com", 0)}
    /\ Len(final_users) = 1 /\ final_users[1].id = 2 /\ final_users[1].xmin = 0

----------------------------------------------------------------------------
(* Properties of the benchmark: leaks, cancellation, seeding (Spec) *)

\* C14: once a bench run has returned (so also between the back-to-back
\* runs of main) no pool connection is checked out, no session has a
\* transaction open, no page task is left inside the gate and all C permits
\* of the run's gate are free
C14_NoLeakBetweenRuns ==
    (Reported("lazy") \/ Reported("joined")) =>
        /\ checkedOut = 0
        /\ \A p \in Tasks : scope[p] # "open" /\ pc[p] = "done"
        /\ sem = run.concurrency /\ waiters = <<>>

\* C14 witness: the "joined" run of 2 or more pages at cap 2 has returned,
\* after the "lazy" run before it, every page having held a connection
C14_Witness ==
    /\ Reported("joined") /\ run.name = "joined"
    /\ run.concurrency = 2 /\ run.pages >= 2
    /\ \A p \in Tasks : scope[p] = "rolledback"
    /\ checkedOut = 0 /\ sem = 2

\* C15: when the page tasks are cancelled in flight, each one's transaction
\* is ended before its connection is back in the pool (the connections out
\* of the pool are exactly those of the open transactions), no task ends
\* with its transaction open, and the loop closes only once every task has
\* ended
C15_ScopesEndBeforeReturn ==
    /\ checkedOut = Cardinality({p \in Tasks : scope[p] = "open"})
    /\ \A p \in Tasks : pc[p] \in Finished => scope[p] # "open"
    /\ mainPc = "exited" => \A p \in Tasks : pc[p] \in Finished

\* the number of rows per table after reset_and_seed
SeededCounts ==
    [users |-> Len(SeededDb.users), todos |-> Len(SeededDb.todos),
     comments |-> Len(SeededDb.comments)]

\* C18: whatever the store held before (nothing, or the rows of an earlier
\* seeding), once reset_and_seed has completed it holds exactly 20 owners,
\* 2000 tasks and 4000 annotations
C18_SeedIdempotent ==
    /\ mainPc \notin {"start", "schema"} => db = SeededLog
    /\ SeededCounts = [users |-> 20, todos |-> 2000, comments |-> 4000]

\* C18 witness: reset_and_seed has completed and the seeded rows are stored
C18_Witness ==
    /\ mainPc = "seeded" /\ db = SeededLog
    /\ Len(StoredTables(db).todos) = 2000

Ids(rows) == {rows[i].id : i \in 1..Len(rows)}

\* every reference resolves and the display names are pairwise distinct
ReferencesResolve(d) ==
    /\ LET owners == Ids(d.users)
       IN  \A i \in 1..Len(d.todos) : d.todos[i].user_id \in owners
    /\ LET tasks == Ids(d.todos)
       IN  \A i \in 1..Len(d.comments) : d.comments[i].todo_id \in tasks
    /\ \A i, j \in 1..Len(d.users) :
          d.users[i].username = d.users[j].username => i = j

\* the committed states the benchmark passes through, each checked once
Committable == {<<>>, SeededLog}

CommittedWellFormed == [log \in Committable |-> ReferencesResolve(StoredTables(log))]

\* C19: in every committed state reached through reset_and_seed and the
\* page fetches, every Task's owner exists, every Annotation's task exists
\* and no two Owners share a display name
C19_ReferencesResolve ==
    /\ db \in Committable
    /\ CommittedWellFormed[db]

\* C19 witness: the seeded store (2000 Tasks, 4000 Annotations) during a
\* bench run that has fetched a page
C19_Witness ==
    /\ db = SeededLog /\ Len(SeededDb.comments) = 4000
    /\ \E p \in Tasks : pc[p] = "done" /\ result[p] = PAGE_SIZE

----------------------------------------------------------------------------
(* The bank-transfer script: 07_SQLAlchemy_core/main.py.  Table bank is the *)
(* sequence of its rows [id, owner, balance] in primary-key order.  The     *)
(* engine's QueuePool keeps its idle DBAPI connections in a FIFO queue;     *)
(* every checkout wraps the connection in a new proxy object, and           *)
(* id(conn.connection) is the address of that proxy.                        *)

\* addresses a proxy object may be allocated at
MaxAddr == 3

Account(id, owner, balance) == [id |-> id, owner |-> owner, balance |-> balance]

NoBank == [exists |-> FALSE, rows |-> <<>>]

\* bank.insert() with alice 100 and bob 50, ids from the serial
InitialAccounts == <<Account(1, "alice", 100), Account(2, "bob", 50)>>

\* table bank before the script runs: absent, or as an earlier run of the
\* script left it
PriorBank == {NoBank, [exists |-> TRUE, rows |-> InitialAccounts]}

\* an UPDATE that is not held to CHECK (balance >= 0)
UpdateUnchecked(t, owner, delta) ==
    [ok |-> TRUE,
     table |-> [t EXCEPT !.rows =
                  [i \in 1..Len(t.rows) |->
                     IF t.rows[i].owner = owner
                     THEN [t.rows[i] EXCEPT !.balance = @ + delta]
                     ELSE t.rows[i]]]]

\* bank.update().where(owner == o).values(balance = balance + delta): the
\* statement fails as a whole when a new row breaks CHECK (balance >= 0)
UpdateBalance(t, owner, delta) ==
    LET new == [i \in 1..Len(t.rows) |->
                  IF t.rows[i].owner = owner
                  THEN [t.rows[i] EXCEPT !.balance = @ + delta]
                  ELSE t.rows[i]]
    IN  IF \E i \in 1..Len(new) : new[i].balance < 0
        THEN [ok |-> FALSE, table |-> t]
        ELSE [ok |-> TRUE, table |-> [t EXCEPT !.rows = new]]

\* a scope exit that commits whatever happened inside
BeginExitCommits(c, w, raised) == w

\* exit of `with engine.begin()`: commit, or rollback when the block raised
BeginExit(c, w, raised) == IF raised THEN c ELSE w

\* a checkout that always hands out the pool's first connection
CheckoutShared(idle, n) == [dbapi |-> 1, idle |-> idle, made |-> n]

\* QueuePool checkout: the oldest idle connection, or a new one when the
\* queue is empty
Checkout(idle, n) ==
    IF idle # <<>>
    THEN [dbapi |-> Head(idle), idle |-> Tail(idle), made |-> n]
    ELSE [dbapi |-> n + 1, idle |-> idle, made |-> n + 1]

\* a return that closes the connection instead of keeping it
ReturnDiscards(idle, c) == idle

\* QueuePool return: the connection joins the queue
Return(idle, c) == Append(idle, c)

\* addresses no live proxy object occupies
FreeAddr == (1..MaxAddr) \ {held[i].proxy : i \in 1..Len(held)}

BankInit ==
    /\ bank \in PriorBank
    /\ bPc = "start" /\ bwork = NoBank
    /\ bpool = <<>> /\ made = 0 /\ held = <<>>
    /\ conn_ids = <<>> /\ dbapi_ids = <<>> /\ conn3 = NoConn
    /\ balances = <<>> /\ caught = "none"
    /\ AsyncIdle /\ PageIdle /\ ScriptIdle /\ LoadIdle /\ StoreIdle /\ OrmIdle

\* engine.connect() / engine.begin(): a connection out of the pool behind a
\* new proxy; the transaction sees the committed table
Acquire(next) ==
    /\ \E a \in FreeAddr :
         LET c == Checkout(bpool, made)
         IN  /\ held' = Append(held, [dbapi |-> c.dbapi, proxy |-> a])
             /\ bpool' = c.idle
             /\ made' = c.made
    /\ bwork' = bank
    /\ bPc' = next

\* the innermost connection goes back to the pool
Yield(next) ==
    /\ bpool' = Return(bpool, held[Len(held)].dbapi)
    /\ held' = SubSeq(held, 1, Len(held) - 1)
    /\ bPc' = next


bankRest == <<asyncVars, pg, scriptVars, loadVars, storeVars, ormVars>>

\* metadata.drop_all(engine): on a connection of its own, committed
BankDropAll ==
    /\ bPc = "start"
    /\ LET c == Checkout(bpool, made)
       IN  bpool' = Return(c.idle, c.dbapi) /\ made' = c.made
    /\ bank' = NoBank
    /\ bPc' = "dropped"
    /\ UNCHANGED <<bwork, held, conn_ids, dbapi_ids, conn3, balances, caught, bankRest>>

\* metadata.create_all(engine)
BankCreateAll ==
    /\ bPc = "dropped"
    /\ LET c == Checkout(bpool, made)
       IN  bpool' = Return(c.idle, c.dbapi) /\ made' = c.made
    /\ bank' = [exists |-> TRUE, rows |-> <<>>]
    /\ bPc' = "created"
    /\ UNCHANGED <<bwork, held, conn_ids, dbapi_ids, conn3, balances, caught, bankRest>>

\* step 3: with engine.begin() as conn
InsertBegin ==
    /\ bPc = "created"
    /\ Acquire("insert")
    /\ UNCHANGED <<bank, conn_ids, dbapi_ids, conn3, balances, caught, bankRest>>

\* step 3: conn.execute(insert_stmt, [alice 100, bob 50])
InsertAccounts ==
    /\ bPc = "insert"
    /\ bwork' = [bwork EXCEPT !.rows = bwork.rows \o InitialAccounts]
    /\ bPc' = "inserted"
    /\ UNCHANGED <<bank, bpool, made, held, conn_ids, dbapi_ids, conn3,
                   balances, caught, bankRest>>

\* step 3: the block ends, the scope commits
InsertCommit ==
    /\ bPc = "inserted"
    /\ bank' = BeginExit(bank, bwork, FALSE)
    /\ Yield("step4")
    /\ UNCHANGED <<bwork, made, conn_ids, dbapi_ids, conn3, balances, caught, bankRest>>

\* step 4: try: with engine.begin() as conn
TransferBegin ==
    /\ bPc = "step4"
    /\ Acquire("debit")
    /\ UNCHANGED <<bank, conn_ids, dbapi_ids, conn3, balances, caught, bankRest>>

\* one UPDATE of the transfer scope: the next statement, or the block raises
Statement(from, owner, delta, next) ==
    /\ bPc = from
    /\ LET u == UpdateBalance(bwork, owner, delta)
       IN  /\ bwork' = u.table
           /\ bPc' = IF u.ok THEN next ELSE "raised"
           /\ caught' = IF u.ok THEN caught ELSE "check"
    /\ UNCHANGED <<bank, bpool, made, held, conn_ids, dbapi_ids, conn3,
                   balances, bankRest>>

\* balance - 20 where owner = alice
Debit == Statement("debit", "alice", -20, "credit")

\* balance + 20 where owner = bob
Credit == Statement("credit", "bob", 20, "overdraw")

\* balance - 200 where owner = bob
Overdraw == Statement("overdraw", "bob", -200, "transferred")

\* a statement of the transfer scope fails in the store for another reason
StatementError ==
    /\ bPc \in {"debit", "credit", "overdraw"}
    /\ bPc' = "raised"
    /\ caught' = "store"
    /\ UNCHANGED <<bank, bwork, bpool, made, held, conn_ids, dbapi_ids, conn3,
                   balances, bankRest>>

\* the block is left.  With an exception: engine.begin() rolls the scope
\* back, the connection is returned and `except Exception` prints;
\* otherwise the scope commits
TransferExit ==
    /\ bPc \in {"raised", "transferred"}
    /\ bank' = BeginExit(bank, bwork, bPc = "raised")
    /\ Yield("step5")
    /\ UNCHANGED <<bwork, made, conn_ids, dbapi_ids, conn3, balances, caught, bankRest>>

\* step 5: with engine.connect() as conn
VerifyConnect ==
    /\ bPc = "step5"
    /\ Acquire("verify")
    /\ UNCHANGED <<bank, conn_ids, dbapi_ids, conn3, balances, caught, bankRest>>

\* step 5: conn.execute(bank.select()).all()
VerifyRead ==
    /\ bPc = "verify"
    /\ balances' = [i \in 1..Len(bwork.rows) |->
                      [owner |-> bwork.rows[i].owner, balance |-> bwork.rows[i].balance]]
    /\ bPc' = "verified"
    /\ UNCHANGED <<bank, bwork, bpool, made, held, conn_ids, dbapi_ids, conn3,
                   caught, bankRest>>

\* step 5: the block ends, the connection is returned
VerifyClose ==
    /\ bPc = "verified"
    /\ Yield("step7")
    /\ UNCHANGED <<bank, bwork, made, conn_ids, dbapi_ids, conn3, balances,
                   caught, bankRest>>

\* step 7: with engine.connect() as conn1, then as conn2 inside it; each id
\* is appended to conn_ids
ConnectPair ==
    /\ bPc \in {"step7", "conn1"}
    /\ Acquire(IF bPc = "step7" THEN "conn1" ELSE "conn2")
    /\ conn_ids' = Append(conn_ids, held'[Len(held')].proxy)
    /\ dbapi_ids' = Append(dbapi_ids, held'[Len(held')].dbapi)
    /\ UNCHANGED <<bank, conn3, balances, caught, bankRest>>

\* step 7: the inner block ends (conn2 returned), then the outer (conn1)
ReleasePair ==
    /\ bPc \in {"conn2", "released2"}
    /\ Yield(IF bPc = "conn2" THEN "released2" ELSE "released")
    /\ UNCHANGED <<bank, bwork, made, conn_ids, dbapi_ids, conn3, balances,
                   caught, bankRest>>

\* step 7: with engine.connect() as conn3
ConnectThird ==
    /\ bPc = "released"
    /\ Acquire("conn3")
    /\ conn3' = held'[Len(held')]
    /\ UNCHANGED <<bank, conn_ids, dbapi_ids, balances, caught, bankRest>>

\* step 7: the last block ends
ReleaseThird ==
    /\ bPc = "conn3"
    /\ Yield("finished")
    /\ UNCHANGED <<bank, bwork, made, conn_ids, dbapi_ids, conn3, balances,
                   caught, bankRest>>

BankNext ==
    \/ BankDropAll \/ BankCreateAll
    \/ InsertBegin \/ InsertAccounts \/ InsertCommit
    \/ TransferBegin \/ Debit \/ Credit \/ Overdraw \/ StatementError
    \/ TransferExit
    \/ VerifyConnect \/ VerifyRead \/ VerifyClose
    \/ ConnectPair \/ ReleasePair \/ ConnectThird \/ ReleaseThird

BankSpec == BankInit /\ [][BankNext]_vars


----------------------------------------------------------------------------
(* Properties of the bank-transfer script (BankSpec) *)

\* positions after step 4's failure has been caught
Surfaced == {"step5", "verify", "verified", "step7", "conn1", "conn2",
             "released2", "released", "conn3", "finished"}

InitialBalances ==
    <<[owner |-> "alice", balance |-> 100], [owner |-> "bob", balance |-> 50]>>

\* C11: when the third update breaks CHECK (balance >= 0) inside the
\* engine.begin() scope, the scope is rolled back as a whole: once the
\* failure is caught, the committed balances, the ones a new connection
\* sees and the ones step 5 reads are alice 100 and bob 50, with nothing of
\* the two earlier updates
C11_TransferRolledBack ==
    (bPc \in Surfaced /\ caught = "check") =>
        /\ bank.rows = InitialAccounts
        /\ bPc = "verify" => bwork.rows = InitialAccounts
        /\ bPc \notin {"step5", "verify"} => balances = InitialBalances

\* C11 witness: the debit and the credit ran, the overdraw broke the check,
\* and step 5 has read alice 100 and bob 50 on a new connection
C11_Witness ==
    /\ bPc = "verified" /\ caught = "check"
    /\ balances = InitialBalances
    /\ Len(held) = 1

\* C16: connections held at the same time are distinct, as DBAPI connections
\* and as the ids the script records; a connection handed out is held once
\* and is not in the pool's idle queue until it is returned
C16_ExclusiveOwnership ==
    /\ \A i, j \in 1..Len(held) :
          i # j => held[i].dbapi # held[j].dbapi /\ held[i].proxy # held[j].proxy
    /\ \A i \in 1..Len(held), k \in 1..Len(bpool) : bpool[k] # held[i].dbapi
    /\ bPc = "conn2" => conn_ids[1] # conn_ids[2] /\ dbapi_ids[1] # dbapi_ids[2]

\* C16 witness: conn1 and conn2 are both open in step 7
C16_Witness ==
    /\ bPc = "conn2" /\ Len(held) = 2 /\ Len(conn_ids) = 2
    /\ held[1].dbapi = dbapi_ids[1] /\ held[2].dbapi = dbapi_ids[2]

Funded == {"step4", "debit", "credit", "overdraw", "raised", "transferred"}
              \cup Surfaced

\* the sum of the balances of a sequence of accounts
RECURSIVE SumOfBalances(_)
SumOfBalances(rows) ==
    IF rows = <<>> THEN 0 ELSE Head(rows).balance + SumOfBalances(Tail(rows))

\* C26: from the commit of the initial insert on, the committed bank table
\* holds the two accounts with no balance below 0 and a total of 150,
\* whichever statement of the transfer scope fails and for whatever reason;
\* only the ends of the engine.begin() scopes change the committed table
C26_CommittedBalances ==
    bPc \in Funded =>
        /\ bank.exists /\ Len(bank.rows) = 2
        /\ \A i \in 1..Len(bank.rows) : bank.rows[i].balance >= 0
        /\ SumOfBalances(bank.rows) = 100 + 50

\* C26 witness: the transfer scope failed between the debit and the credit,
\* with 130 in its uncommitted table, and the committed table still holds
\* alice 100 and bob 50 after the scope was left
C26_Witness ==
    /\ bPc = "step5" /\ caught = "store"
    /\ SumOfBalances(bwork.rows) = 130
    /\ SumOfBalances(bank.rows) = 150
    /\ bank.rows[1].balance = 100 /\ bank.rows[2].balance = 50


----------------------------------------------------------------------------
(* The benchmark at the scale of its pool: 09_async_stack/main.py, one      *)
(* bench run with enough page tasks to reach the pool's ceiling.  The page  *)
(* tasks run the same code and are counted by position, not told apart:     *)
(*   gate       in sem.acquire(): asleep, or handed a permit by a release   *)
(*              and not yet resumed                                         *)
(*   woken      those of `gate` that were handed a permit                   *)
(*   pool       inside the gate, waiting in the pool's checkout             *)
(*   fetch      inside the gate, holding a connection                       *)
(*   returning / raising / unwinding                                        *)
(*              inside the gate with the session closed, about to leave     *)
(*              with a count, an exception or a cancellation                *)
(*   done / failed / cancelled   ended                                      *)
(*   timedout   checkouts the pool has ended with TimeoutError              *)

\* page tasks per bench call
MaxLoadPages == 16
\* how many of main's concurrency values are run
MaxCaps == 3

\* for c in (5, 10, 20, 50, 100, 500, 1000)
Concurrencies == <<5, 10, 20, 50, 100, 500, 1000>>

Caps == {Concurrencies[i] : i \in 1..Min(MaxCaps, Len(Concurrencies))}

\* a pool that creates a connection for every request
GrantAll(out, k) == k

\* QueuePool checkout with `out` connections checked out: of k requests,
\* those served from the idle queue or by a new connection; the pool holds
\* pool_size + max_overflow connections at most
Grant(out, k) == Min(k, POOL_SIZE + MAX_OVERFLOW - out)

\* k tasks enter the gate and ask the pool for a connection
Enter(c, k) ==
    LET g == Grant(c.fetch, k)
    IN  [c EXCEPT !.fetch = @ + g, !.pool = @ + (k - g)]

\* sem.release() by a task leaving the gate: the permit goes to the first
\* task asleep at the gate, which resumes in a later callback; once
\* asyncio.run has swept the tasks no sleeper's future is pending
Leave(phase, c) ==
    IF phase # "teardown" /\ c.gate - c.woken > 0
    THEN [c EXCEPT !.woken = @ + 1]
    ELSE c

Ended(c) == c.done + c.failed + c.cancelled

\* the tasks inside the gate
Inside(c) == c.pool + c.fetch + c.returning + c.raising + c.unwinding

LoadInit ==
    /\ lPc = "idle" /\ load = NoLoad /\ at = NoCounts
    /\ AsyncIdle /\ PageIdle /\ ScriptIdle /\ BankIdle /\ StoreIdle /\ OrmIdle

loadRest == <<asyncVars, pg, scriptVars, bankVars, storeVars, ormVars>>

\* the tasks run on the loop, which has not been torn down
LoadRuns == lPc \in {"gather", "raised"}

\* bench up to its await: every task takes its first step, the first C
\* enter the gate and ask for a connection, the others queue at the gate
LoadBench ==
    /\ lPc = "idle"
    /\ \E n \in 0..MaxLoadPages, c \in Caps :
         /\ load' = [pages |-> n, concurrency |-> c]
         /\ at' = Enter([NoCounts EXCEPT !.gate = n - Min(n, c)], Min(n, c))
    /\ lPc' = "gather"
    /\ UNCHANGED loadRest

\* a task handed a permit resumes in sem.acquire(), enters the gate and
\* asks the pool for a connection
GateEnter ==
    /\ LoadRuns /\ at.woken > 0
    /\ at' = Enter([at EXCEPT !.gate = @ - 1, !.woken = @ - 1], 1)
    /\ UNCHANGED <<lPc, load, loadRest>>

\* a checkout waiting at the pool takes a connection that was returned
PoolServe ==
    /\ LoadRuns /\ at.pool > 0 /\ Grant(at.fetch, 1) = 1
    /\ at' = [at EXCEPT !.pool = @ - 1, !.fetch = @ + 1]
    /\ UNCHANGED <<lPc, load, loadRest>>

\* a page has its count and its session closes: the connection is back in
\* the pool, the task still inside the gate
PageDone ==
    /\ LoadRuns /\ at.fetch > 0
    /\ at' = [at EXCEPT !.fetch = @ - 1, !.returning = @ + 1]
    /\ UNCHANGED <<lPc, load, loadRest>>

\* a statement of a page task fails with a store error and its session
\* closes
PageFail ==
    /\ LoadRuns /\ at.fetch > 0
    /\ at' = [at EXCEPT !.fetch = @ - 1, !.raising = @ + 1]
    /\ UNCHANGED <<lPc, load, loadRest>>

\* a checkout has waited pool_timeout (30 s by default) without taking a
\* connection: the pool raises TimeoutError in the task, whose session
\* closes
PoolTimeout ==
    /\ LoadRuns /\ at.pool > 0
    /\ at' = [at EXCEPT !.pool = @ - 1, !.raising = @ + 1, !.timedout = @ + 1]
    /\ UNCHANGED <<lPc, load, loadRest>>

\* a task leaves `async with sem` and ends with its count
PageReturn ==
    /\ LoadRuns /\ at.returning > 0
    /\ at' = Leave(lPc, [at EXCEPT !.returning = @ - 1, !.done = @ + 1])
    /\ UNCHANGED <<lPc, load, loadRest>>

\* a task leaves `async with sem` and ends with its exception
PageRaise ==
    /\ LoadRuns /\ at.raising > 0
    /\ at' = Leave(lPc, [at EXCEPT !.raising = @ - 1, !.failed = @ + 1])
    /\ UNCHANGED <<lPc, load, loadRest>>

\* gather has every result: bench prints its line and returns
LoadReport ==
    /\ lPc = "gather" /\ at.done = load.pages
    /\ lPc' = "idle"
    /\ UNCHANGED <<load, at, loadRest>>

\* gather passes the first exception on: bench and main end with it
LoadRaise ==
    /\ lPc = "gather" /\ at.failed > 0
    /\ lPc' = "raised"
    /\ UNCHANGED <<load, at, loadRest>>

\* asyncio.run requests the cancellation of the tasks left; each ends in a
\* later callback of its own
LoadTeardown ==
    /\ lPc = "raised"
    /\ lPc' = "teardown"
    /\ UNCHANGED <<load, at, loadRest>>

\* a cancelled task in sem.acquire() ends, one that had been handed a
\* permit giving it back
GateCancel ==
    /\ lPc = "teardown" /\ at.gate > 0
    /\ \E w \in {0, 1} :
         /\ w = 1 => at.woken > 0
         /\ w = 0 => at.gate - at.woken > 0
         /\ at' = [at EXCEPT !.gate = @ - 1, !.woken = @ - w, !.cancelled = @ + 1]
    /\ UNCHANGED <<lPc, load, loadRest>>

\* a cancelled task inside its session, holding a connection or waiting in
\* the checkout, leaves the session, which closes.  A task cancelled while
\* it waits on its shielded close task ends at once, its connection still
\* out and left to the close task
PageCancel ==
    /\ lPc = "teardown" /\ at.fetch + at.pool > 0
    /\ \/ at.fetch > 0 /\ at' = [at EXCEPT !.fetch = @ - 1, !.unwinding = @ + 1]
       \/ at.pool > 0 /\ at' = [at EXCEPT !.pool = @ - 1, !.unwinding = @ + 1]
       \/ at.fetch > 0 /\ at' = [at EXCEPT !.fetch = @ - 1, !.cancelled = @ + 1,
                                            !.orphaned = @ + 1]
    /\ UNCHANGED <<lPc, load, loadRest>>

\* a close task swept while under way returns its connection in a callback
\* of its own; one swept before its first step never does
OrphanClose ==
    /\ lPc = "teardown" /\ at.orphaned > 0
    /\ at' = [at EXCEPT !.orphaned = @ - 1]
    /\ UNCHANGED <<lPc, load, loadRest>>

\* a cancelled task whose session is closed leaves `async with sem` and
\* ends cancelled
PageUnwound ==
    /\ lPc = "teardown"
    /\ \E k \in {"returning", "raising", "unwinding"} :
         /\ at[k] > 0
         /\ at' = Leave(lPc, [at EXCEPT ![k] = @ - 1, !.cancelled = @ + 1])
    /\ UNCHANGED <<lPc, load, loadRest>>

\* the loop closes once every task has ended
LoadExit ==
    /\ lPc = "teardown" /\ Ended(at) = load.pages
    /\ lPc' = "exited"
    /\ UNCHANGED <<load, at, loadRest>>

LoadNext ==
    \/ LoadBench \/ GateEnter \/ PoolServe \/ PageDone \/ PageFail \/ PoolTimeout
    \/ PageReturn \/ PageRaise \/ LoadReport \/ LoadRaise \/ LoadTeardown
    \/ GateCancel \/ PageCancel \/ OrphanClose \/ PageUnwound \/ LoadExit

LoadSpec == LoadInit /\ [][LoadNext]_vars

\* C12: with the gate cap above the pool's ceiling, the tasks that find no
\* connection wait at the pool and none of them fails for it: every page
\* task obtains a connection and completes, the gate and the pool together
\* raising no error
C12_PoolWaitNoError ==
    at.timedout = 0

\* C13: the connections checked out never number more than
\* pool_size + max_overflow = 15, nor more than the cap C of the run
C13_PoolCeiling ==
    /\ at.fetch + at.orphaned <= 15
    /\ at.fetch + at.orphaned <= Min(load.concurrency, POOL_SIZE + MAX_OVERFLOW)
    /\ at.woken + Inside(at) <= load.concurrency

\* C13 witness: at cap 20 all 15 connections are out and a task waits at
\* the pool
C13_Witness ==
    /\ lPc = "gather" /\ load.concurrency = 20
    /\ at.fetch = 15 /\ at.pool >= 1


----------------------------------------------------------------------------
(* The entity model as declared: User, Todo and Comment of                  *)
(* 09_async_stack/main.py (08_SQLAlchemy_ORM/main.py declares the same      *)
(* columns).  One object is added and committed at a time; a column value   *)
(* is Null (None, stored as NULL) or Some(v).                               *)

\* rows a table may hold
MaxRows == 2
\* ids a table's sequence may hand out
MaxSerial == 3

Null == <<>>

Some(v) == <<v>>

\* Column(..., nullable=False) is given for username, title and body; the
\* two ForeignKey columns are declared without it and accept NULL
Nullable ==
    [users |-> [username |-> FALSE],
     todos |-> [title |-> FALSE, user_id |-> TRUE],
     comments |-> [body |-> FALSE, todo_id |-> TRUE]]

\* a reference is NULL or the id of a row of the table referred to
Resolves(ref, rows) == ref = Null \/ \E i \in 1..Len(rows) : rows[i].id = ref[1]

\* the INSERT of one row under the constraints of its table: NOT NULL,
\* UNIQUE (username) and the FOREIGN KEYs
Accepts(d, table, row) ==
    /\ \A col \in DOMAIN Nullable[table] : row[col] = Null => Nullable[table][col]
    /\ table = "users" =>
          \A i \in 1..Len(d.users) : d.users[i].username # row.username
    /\ table = "todos" => Resolves(row.user_id, d.users)
    /\ table = "comments" => Resolves(row.todo_id, d.todos)

\* session.add(obj); session.commit(): the INSERT draws the next value of
\* the table's id sequence, and the row is stored with it or the store
\* rejects the row and the session rolls back; the value drawn by a
\* rejected INSERT is not given back
AddRow(table, row) ==
    /\ Len(store[table]) < MaxRows /\ store.seq[table] < MaxSerial
    /\ LET id == store.seq[table] + 1
           drawn == [store EXCEPT !.seq[table] = id]
       IN  IF Accepts(store, table, row)
           THEN /\ store' = [drawn EXCEPT ![table] = Append(@, [id |-> id] @@ row)]
                /\ added' = "stored"
           ELSE /\ store' = drawn
                /\ added' = "rejected"

Texts == {Null, Some("alice"), Some("bob")}

Refs == {Null} \cup {Some(i) : i \in 1..MaxSerial}

StoreInit ==
    /\ store = EmptyStore /\ added = "none"
    /\ AsyncIdle /\ PageIdle /\ ScriptIdle /\ BankIdle /\ LoadIdle /\ OrmIdle

storeRest == <<asyncVars, pg, scriptVars, bankVars, loadVars, ormVars>>

\* User(username=...)
AddUser ==
    /\ \E name \in Texts : AddRow("users", [username |-> name])
    /\ UNCHANGED storeRest

\* Todo(title=..., user=...), the owner left out or given
AddTodo ==
    /\ \E title \in Texts, owner \in Refs :
          AddRow("todos", [title |-> title, user_id |-> owner])
    /\ UNCHANGED storeRest

\* Comment(body=..., todo=...), the todo left out or given
AddComment ==
    /\ \E body \in Texts, todo \in Refs :
          AddRow("comments", [body |-> body, todo_id |-> todo])
    /\ UNCHANGED storeRest

StoreNext == AddUser \/ AddTodo \/ AddComment

StoreSpec == StoreInit /\ [][StoreNext]_vars

\* C20: the owner reference of a Task and the task reference of an
\* Annotation are required: no Task is stored without an Owner and no
\* Annotation without a Task
C20_ReferencesRequired ==
    /\ \A i \in 1..Len(store.todos) : store.todos[i].user_id # Null
    /\ \A i \in 1..Len(store.comments) : store.comments[i].todo_id # Null


----------------------------------------------------------------------------
(* Properties of the benchmark: read-only fetches, page ranks, the gate's   *)
(* permits, the order of the runs (Spec)                                    *)

\* C21: the page fetches are read-only: once reset_and_seed has completed,
\* no warm-up, page task or bench run, at any cap and in any interleaving,
\* changes what is stored
C21_FetchesReadOnly ==
    [][mainPc \notin {"start", "schema"} => db' = db]_vars

\* C21 witness: main has run every bench call and disposed the engine, and
\* the store is the seeded one
C21_Witness ==
    /\ mainPc = "done" /\ db = SeededLog
    /\ report.name = "joined" /\ report.pages >= 1 /\ queries >= 1

\* the ids of the Todos ranked p*PAGE_SIZE .. p*PAGE_SIZE + PAGE_SIZE - 1 by
\* id in the seeded table (ids 1..2000)
Ranked(p) == [i \in 1..PAGE_SIZE |-> p * PAGE_SIZE + i]

\* every page of main's reference run holds the Tasks of its ranks
ReferenceRanked ==
    \A name \in {"lazy", "joined"}, p \in 0..(REF_PAGES - 1) :
       ReferenceRun[name][p].todos = Ranked(p)

\* C22: for every page index p both strategies return the Tasks ranked
\* p*PAGE_SIZE .. p*PAGE_SIZE+PAGE_SIZE-1 in ascending id, so distinct pages
\* are disjoint and consecutive pages contiguous, at every cap and in every
\* interleaving of the page tasks
C22_PageRanks ==
    /\ \A p \in Tasks : pc[p] \in {"loaded", "done"} => fetched[p] = Ranked(p)
    /\ \A p \in Tasks : \A i \in 1..(Len(fetched[p]) - 1) :
          fetched[p][i] < fetched[p][i + 1]
    /\ \A p, q \in Tasks :
          (p < q /\ fetched[p] # <<>> /\ fetched[q] # <<>>) =>
             /\ fetched[p][Len(fetched[p])] < fetched[q][1]
             /\ q = p + 1 => fetched[q][1] = fetched[p][Len(fetched[p])] + 1
    /\ ReferenceRanked

\* C22 witness: at cap 2 page 1 has returned Todos 21..40 while page 0 is
\* still inside its fetch
C22_Witness ==
    /\ run # NoReport /\ run.concurrency = 2 /\ run.pages >= 2
    /\ pc[1] = "done" /\ pc[0] = "fetching"
    /\ fetched[1][1] = 21 /\ fetched[1][20] = 40


\* the tasks holding a permit of the gate: those inside `async with sem`
\* and those sem.release() has handed a permit to and that have yet to
\* resume from sem.acquire()
PermitHolders == {p \in Tasks : pc[p] \in InGate \cup {"woken"}}

\* C24: the gate leaks no permit: in a run with cap C the free permits and
\* the tasks holding one always add up to C, a task that failed or was
\* cancelled holding none; and a task sleeps at the gate only while no
\* permit is free, so a task that has ended never keeps a waiter out.  The
\* one exception is a sleeper whose cancellation asyncio.run has requested:
\* it is no longer handed a permit, and it has ended when the loop closes
C24_PermitsConserved ==
    run # NoReport =>
        /\ sem + Cardinality(PermitHolders) = run.concurrency
        /\ (\E p \in Tasks : pc[p] = "waiting") => sem = 0 \/ mainPc = "teardown"
        /\ mainPc = "exited" => \A p \in Tasks : pc[p] \in Finished

\* C24 witness: at cap 1 a page task has failed and the task behind it at
\* the gate has its permit
C24_Witness ==
    /\ run # NoReport /\ run.concurrency = 1
    /\ \E p, q \in Tasks : pc[p] = "failed" /\ pc[q] \in {"woken", "fetching"}
    /\ sem = 0

\* a bench run starts: main calls bench, which creates the run's page tasks
RunStarts == benchPc = "idle" /\ benchPc' = "gather"

\* a page task of the current run has started and not ended
Live == {p \in Tasks : pc[p] \notin Finished \cup {"new"}}

\* C27: the runs of main never overlap.  No run exists before the seeding
\* and both warm-ups are over; a run starts only when every page task of
\* the run before it has returned; the "joined" run of a concurrency value
\* starts after the "lazy" run of that value has reported; outside a run no
\* page task is live; and the pool is disposed after the last "joined" run
\* has returned
C27_RunsInSequence ==
    /\ [](mainPc \in {"start", "schema", "seeded", "warm"} =>
            run = NoReport /\ Tasks = {})
    /\ [][RunStarts =>
            /\ \A p \in Tasks : pc[p] = "done"
            /\ run = NoReport => mainPc = "lazy" /\ concIdx = 1 /\ db = SeededLog
            /\ mainPc = "joined" =>
                  /\ run.name = "lazy" /\ run.concurrency = concIdx
                  /\ report.name = "lazy" /\ report.pages = run.pages
                  /\ run'.name = "joined" /\ run'.concurrency = concIdx
            /\ (mainPc = "lazy" /\ run # NoReport) =>
                  /\ run.name = "joined" /\ run.concurrency = concIdx - 1
                  /\ report.name = "joined"]_vars
    /\ [](benchPc = "idle" => Live = {} /\ \A p \in Tasks : pc[p] = "done")
    /\ [](Live # {} => mainPc \in {run.name, "aborted", "teardown"})
    /\ [](mainPc \in {"dispose", "done"} =>
            /\ benchPc = "idle" /\ Live = {}
            /\ run.name = "joined" /\ run.concurrency = MaxConc
            /\ report.name = "joined")

\* C27 witness: the "joined" run of the second concurrency value is under
\* way with a page task fetching, after the "lazy" run of that value has
\* reported its pages
C27_Witness ==
    /\ mainPc = "joined" /\ benchPc = "gather" /\ concIdx = 2
    /\ run.name = "joined" /\ run.concurrency = 2
    /\ report.name = "lazy" /\ report.pages >= 1
    /\ \E p \in Tasks : pc[p] = "fetching"

----------------------------------------------------------------------------
(* The ORM script's query count: 08_SQLAlchemy_ORM/main.py, step 5.  The    *)
(* script stores 3 Todos with 2, 1 and 1 Comments; here the table holds up  *)
(* to MaxTodos Todos with up to MaxPerTodo Comments each.  A statement is   *)
(* recorded as the table it selects from and, for a lazy load, the Todo.    *)

\* Comments a Todo may have
MaxPerTodo == 2

\* n Todos, Todo i with per[i] Comments, in the order the session added them
OrmRows(n, per) ==
    [todos |-> [i \in 1..n |-> [id |-> i, title |-> "todo" \o ToString(i)]],
     comments |->
        LET owners == {<<i, k>> : i \in 1..n, k \in 1..MaxPerTodo}
            kept == {x \in owners : x[2] <= per[x[1]]}
            before(x) == Cardinality({y \in kept :
                            y[1] < x[1] \/ (y[1] = x[1] /\ y[2] < x[2])})
        IN  [j \in 1..Cardinality(kept) |->
                LET x == CHOOSE y \in kept : before(y) = j - 1
                IN  [id |-> j, body |-> "c" \o ToString(x[2]), todo_id |-> x[1]]]]

OrmStores ==
    UNION {{OrmRows(n, per) : per \in [1..n -> 0..MaxPerTodo]} : n \in 0..MaxTodos}

\* session.query(Todo).all()
SelectTodos == [from |-> "todo", todo_id |-> 0]

\* the lazy load of one Todo's comments
SelectComments(id) == [from |-> "comment", todo_id |-> id]

\* session.query(Todo).options(joinedload(Todo.comments)).all()
SelectJoined == [from |-> "todo LEFT OUTER JOIN comment", todo_id |-> 0]

\* a recorder that is left as it is between the measurements
ClearKeeps(q) == q

\* queries.clear()
Clear(q) == <<>>

\* the statements that reading todo.comments issues: none when joinedload
\* has filled the collection, one SELECT under the default lazy loading
Touch(eager, todo) == IF eager THEN <<>> ELSE <<SelectComments(todo.id)>>

\* before_cursor_execute appends every statement while it is registered
Record(q, stmts) == IF listening THEN q \o stmts ELSE q

OrmInit ==
    /\ ostore \in OrmStores
    /\ oPc = "listen" /\ recorded = <<>> /\ listening = FALSE
    /\ touched = 0 /\ lazy_count = -1 /\ joined_count = -1
    /\ AsyncIdle /\ PageIdle /\ ScriptIdle /\ BankIdle /\ LoadIdle /\ StoreIdle

ormRest == <<asyncVars, pg, scriptVars, bankVars, loadVars, storeVars>>

\* queries = []; event.listen(engine, "before_cursor_execute", ...)
OrmListen ==
    /\ oPc = "listen"
    /\ recorded' = <<>> /\ listening' = TRUE
    /\ oPc' = "lazy"
    /\ UNCHANGED <<ostore, touched, lazy_count, joined_count, ormRest>>

\* todos = session.query(Todo).all(), plain or with joinedload
OrmQuery ==
    /\ oPc \in {"lazy", "joined"}
    /\ recorded' = Record(recorded, <<IF oPc = "lazy" THEN SelectTodos ELSE SelectJoined>>)
    /\ touched' = 0
    /\ oPc' = IF oPc = "lazy" THEN "lazy_loop" ELSE "joined_loop"
    /\ UNCHANGED <<ostore, listening, lazy_count, joined_count, ormRest>>

\* for todo in todos: _ = todo.comments
OrmTouch ==
    /\ oPc \in {"lazy_loop", "joined_loop"}
    /\ touched < Len(ostore.todos)
    /\ recorded' = Record(recorded, Touch(oPc = "joined_loop", ostore.todos[touched + 1]))
    /\ touched' = touched + 1
    /\ UNCHANGED <<oPc, ostore, listening, lazy_count, joined_count, ormRest>>

\* print(f"Lazy load queries: {len(queries)}")
OrmPrintLazy ==
    /\ oPc = "lazy_loop" /\ touched = Len(ostore.todos)
    /\ lazy_count' = Len(recorded)
    /\ oPc' = "clear"
    /\ UNCHANGED <<ostore, recorded, listening, touched, joined_count, ormRest>>

\* queries.clear()
OrmClear ==
    /\ oPc = "clear"
    /\ recorded' = Clear(recorded)
    /\ oPc' = "joined"
    /\ UNCHANGED <<ostore, listening, touched, lazy_count, joined_count, ormRest>>

\* print(f"Joinedload queries: {len(queries)}")
OrmPrintJoined ==
    /\ oPc = "joined_loop" /\ touched = Len(ostore.todos)
    /\ joined_count' = Len(recorded)
    /\ oPc' = "remove"
    /\ UNCHANGED <<ostore, recorded, listening, touched, lazy_count, ormRest>>

\* event.remove(engine, "before_cursor_execute", ...)
OrmRemove ==
    /\ oPc = "remove"
    /\ listening' = FALSE
    /\ oPc' = "finished"
    /\ UNCHANGED <<ostore, recorded, touched, lazy_count, joined_count, ormRest>>

OrmNext ==
    \/ OrmListen \/ OrmQuery \/ OrmTouch \/ OrmPrintLazy \/ OrmClear
    \/ OrmPrintJoined \/ OrmRemove

OrmSpec == OrmInit /\ [][OrmNext]_vars

\* C23: with N Todos stored, loading them and touching each one's comments
\* under lazy loading records exactly 1 + N statements, the same loop under
\* joinedload exactly 1, and the second measurement holds no statement of
\* the first, the recorder having been cleared in between
C23_QueryCounts ==
    /\ lazy_count # -1 => lazy_count = 1 + Len(ostore.todos)
    /\ joined_count # -1 => joined_count = 1
    /\ oPc \in {"joined_loop", "remove", "finished"} => recorded = <<SelectJoined>>

\* C23 witness: 3 Todos stored, both counts printed: 4 and 1
C23_Witness ==
    /\ oPc = "finished" /\ Len(ostore.todos) = 3
    /\ lazy_count = 4 /\ joined_count = 1

====
